---------------------------- MODULE Spec2Model ----------------------------
(***************************************************************************)
(* Model of frei/twostream.py: the two-stream flux propagator, the layer   *)
(* recurrence of emit, the convective flux and the radiative timestep.     *)
(*                                                                         *)
(* Reals are fixed-point integers: the real number r is the integer        *)
(* r * Scale, products and quotients are rescaled and truncated toward     *)
(* zero.  exp and x^0.9 are tabulated at the fixed-point arguments and     *)
(* interpolated linearly between table points.  Quantities are in units in *)
(* which k_B = m_bar = sigma_sb = 1, h*c/k_B = 1 and 1e18*2*h*c^2 = 1.      *)
(* Arrays are functions on 0..n-1, as the source indexes them.             *)
(***************************************************************************)
EXTENDS Integers, Sequences, FiniteSets, TLC

----------------------------------------------------------------------------
(* Bounds and input domains *)

MaxLayers == 4

Scale == 10^3

GravityVals == {1 * Scale, 2 * Scale}

\* the wavelength grid and the top-of-atmosphere fluxes on it
LamGrids == { [j \in 0..1 |-> IF j = 0 THEN 1 * Scale ELSE 5 * Scale] }
TOAFluxes == { [j \in 0..1 |-> 0], [j \in 0..1 |-> IF j = 0 THEN 2 * Scale ELSE 1 * Scale] }

\* pressure grids of n layers: decreasing with the layer index (the data
\* model's invariant), and two grids that break it
PressureProfiles(n) ==
    { [k \in 0..(n - 1) |-> (n - k) * Scale],
      [k \in 0..(n - 1) |-> (k + 1) * Scale],
      [k \in 0..(n - 1) |-> 1 * Scale] }

\* temperature grids of m layers: two isothermal ones and one that cools upward
TemperatureProfiles(m) ==
    { [k \in 0..(m - 1) |-> 1 * Scale],
      [k \in 0..(m - 1) |-> 2 * Scale],
      [k \in 0..(m - 1) |-> (m - k) * Scale] }

----------------------------------------------------------------------------
(* Fixed-point arithmetic *)

Abs(a) == IF a < 0 THEN -a ELSE a

IDiv(a, b) ==
    IF (a < 0) = (b < 0) THEN Abs(a) \div Abs(b) ELSE -(Abs(a) \div Abs(b))

Sign(a, b) == IF (a < 0) = (b < 0) THEN 1 ELSE -1

\* a * b, computed by halves so that no intermediate product exceeds the result
FMul(a, b) ==
    LET aH == Abs(a) \div Scale
        aL == Abs(a) % Scale
        bH == Abs(b) \div Scale
        bL == Abs(b) % Scale
    IN  Sign(a, b) * (aH * bH * Scale + aH * bL + aL * bH + (aL * bL) \div Scale)

\* a / b, for b # 0
FDiv(a, b) ==
    Sign(a, b) * ((Abs(a) \div Abs(b)) * Scale + ((Abs(a) % Abs(b)) * Scale) \div Abs(b))

\* Integer Newton iteration from an upper bound r of the root of n
RECURSIVE ISqrtIter(_, _)
ISqrtIter(n, r) ==
    LET r2 == (r + n \div r) \div 2
    IN  IF r2 >= r THEN r ELSE ISqrtIter(n, r2)

\* x ** 0.5, for x >= 0
FSqrt(x) == IF x = 0 THEN 0 ELSE ISqrtIter(x * Scale, (Scale + x) \div 2 + 1)

\* exp at the arguments -4.0, -3.9, ..., 4.0
ExpTable ==
    << 18, 20, 22, 25, 27, 30, 33, 37, 41, 45, 50, 55, 61, 67, 74, 82, 91, 100,
       111, 122, 135, 150, 165, 183, 202, 223, 247, 273, 301, 333, 368, 407, 449,
       497, 549, 607, 670, 741, 819, 905, 1000, 1105, 1221, 1350, 1492, 1649,
       1822, 2014, 2226, 2460, 2718, 3004, 3320, 3669, 4055, 4482, 4953, 5474,
       6050, 6686, 7389, 8166, 9025, 9974, 11023, 12182, 13464, 14880, 16445,
       18174, 20086, 22198, 24533, 27113, 29964, 33115, 36598, 40447, 44701,
       49402, 54598 >>

ExpStep == Scale \div 10

\* jnp.exp on [-4.0, 4.0]
FExp(x) ==
    LET k == x \div ExpStep
        r == x % ExpStep
    IN  IF r = 0 THEN ExpTable[k + 41]
        ELSE ExpTable[k + 41] + IDiv((ExpTable[k + 42] - ExpTable[k + 41]) * r, ExpStep)

\* jnp.log at the pressure ratios of the grids
FLog(x) ==
    CASE x = 250 -> -1386
      [] x = 500 -> -693
      [] x = 1000 -> 0
      [] x = 2000 -> 693
      [] x = 4000 -> 1386

\* x ** 0.9 at the arguments 0.0, 0.5, ..., 25.0
Pow09Table ==
    << 0, 536, 1000, 1440, 1866, 2281, 2688, 3088, 3482, 3872, 4257, 4638, 5016,
       5390, 5762, 6131, 6498, 6862, 7225, 7585, 7943, 8300, 8655, 9008, 9360,
       9710, 10059, 10406, 10753, 11098, 11441, 11784, 12126, 12466, 12806,
       13144, 13482, 13818, 14154, 14489, 14823, 15156, 15488, 15820, 16150,
       16480, 16810, 17138, 17466, 17793, 18119 >>

Pow09Step == Scale \div 2

\* x ** 0.9 on [0.0, 25.0]
FPow09(x) ==
    LET k == x \div Pow09Step
        r == x % Pow09Step
    IN  IF r = 0 THEN Pow09Table[k + 1]
        ELSE Pow09Table[k + 1] + IDiv((Pow09Table[k + 2] - Pow09Table[k + 1]) * r, Pow09Step)

\* x ** 1.5, for x >= 0
FPow15(x) == FMul(x, FSqrt(x))

Min(a, b) == IF a <= b THEN a ELSE b

\* jnp.expm1
FExpm1(x) == FExp(x) - Scale

----------------------------------------------------------------------------
(* Array indexing of the array library under jit: a read at an index beyond *)
(* the last row is clamped to the last row, a write there is dropped.       *)

Len0(a) == Cardinality(DOMAIN a)

InRange(a, k) == k >= 0 /\ k <= Len0(a) - 1

\* an out-of-range index wrapping around instead of being clamped
Get_wrap(a, k) == a[k % Len0(a)]

Get(a, k) == a[IF k < 0 THEN 0 ELSE IF k > Len0(a) - 1 THEN Len0(a) - 1 ELSE k]

AtSet(a, k, v) == IF InRange(a, k) THEN [a EXCEPT ![k] = v] ELSE a

----------------------------------------------------------------------------
(* Scattering correction term and blackbody emitter *)

\* the polynomial fit applied at every single-scattering albedo
E_fit_everywhere(omega_0, g_0) ==
    1225 - IDiv(1582 * g_0, 10000) - IDiv(1777 * omega_0, 10000)
         - IDiv(7465 * FMul(g_0, g_0), 100000)
         + IDiv(2351 * FMul(omega_0, g_0), 10000)
         - IDiv(5582 * FMul(omega_0, omega_0), 100000)

E(omega_0, g_0) ==
    IF omega_0 > Scale \div 10
    THEN 1225 - IDiv(1582 * g_0, 10000) - IDiv(1777 * omega_0, 10000)
              - IDiv(7465 * FMul(g_0, g_0), 100000)
              + IDiv(2351 * FMul(omega_0, g_0), 10000)
              - IDiv(5582 * FMul(omega_0, omega_0), 100000)
    ELSE Scale

true_fun(x) == FDiv(Scale, x)

false_fun(x) == 0

vectorized_cond(x) ==
    LET true_op == IF x > 0 THEN x ELSE Scale \div 2
        false_op == IF x > 0 THEN 0 ELSE x
    IN  IF x > 0 THEN true_fun(true_op) ELSE false_fun(false_op)

BB(temperature, wavenumber) ==
    LET one_over_denom ==
            vectorized_cond(FExpm1(FMul(wavenumber, vectorized_cond(temperature))))
    IN  FMul(FMul(FMul(wavenumber, wavenumber), wavenumber), one_over_denom)

----------------------------------------------------------------------------
(* Two-stream coefficients, Malik 2017 Equations 12-13, Deitrick 2020 B2 *)

Transmission(omega_0, g_0, delta_tau) ==
    FExp(FMul(-2 * FSqrt(FMul(FMul(E(omega_0, g_0), E(omega_0, g_0) - omega_0),
                               Scale - FMul(omega_0, g_0))),
              delta_tau))

ZetaRoot(omega_0, g_0) ==
    FSqrt(FDiv(FDiv(E(omega_0, g_0) - omega_0, E(omega_0, g_0)),
               Scale - FMul(omega_0, g_0)))

zeta_plus(omega_0, g_0) == (Scale + ZetaRoot(omega_0, g_0)) \div 2

zeta_minus(omega_0, g_0) == (Scale - ZetaRoot(omega_0, g_0)) \div 2

Sq(x) == FMul(x, x)

chi(zm, zp, T) == FMul(Sq(zm), Sq(T)) - Sq(zp)

xi(zm, zp, T) == FMul(FMul(zp, zm), Scale - Sq(T))

\* psi with the sign of zeta_plus ** 2 reversed
psi_plus(zm, zp, T) == FMul(Sq(zm) + Sq(zp), T)

psi(zm, zp, T) == FMul(Sq(zm) - Sq(zp), T)

JnpPi == 3142

pi(omega_0, g_0) ==
    FDiv(FMul(JnpPi, Scale - omega_0), E(omega_0, g_0) - omega_0)

\* lines 157-170: the transient coefficients of one call, one wavelength element
TwoStreamCoefficients(omega_0, g_0, delta_tau) ==
    LET T == Transmission(omega_0, g_0, delta_tau)
        zp == zeta_plus(omega_0, g_0)
        zm == zeta_minus(omega_0, g_0)
    IN  [ E |-> E(omega_0, g_0), T |-> T, zeta_plus |-> zp, zeta_minus |-> zm,
          chi |-> chi(zm, zp, T), xi |-> xi(zm, zp, T), psi |-> psi(zm, zp, T),
          pi |-> pi(omega_0, g_0) ]

----------------------------------------------------------------------------
(* propagate_fluxes, one wavelength element; Deitrick 2022 Equation B4 *)

PropagateElem(lam_j, F_1_up, F_2_down, T_1, T_2, delta_tau, omega_0, g_0) ==
    LET wavenumber == FDiv(Scale, lam_j)
        B1 == BB(T_1, wavenumber)
        B2 == BB(T_2, wavenumber)
        x == IF delta_tau = 0 THEN Scale ELSE delta_tau
        Bprime == IF delta_tau = 0 THEN 0 ELSE FDiv(B1 - B2, x)
        out(k) ==
            LET Bterm == FDiv(Bprime, FMul(2 * k.E, Scale - FMul(omega_0, g_0)))
            IN  [ F_2_up |->
                    FMul(FDiv(Scale, k.chi),
                         FMul(k.psi, F_1_up) - FMul(k.xi, F_2_down)
                           + FMul(k.pi, FMul(B2, k.chi + k.xi) - FMul(k.psi, B1)
                                          + FMul(Bterm, k.chi - k.psi - k.xi))),
                  F_1_down |->
                    FMul(FDiv(Scale, k.chi),
                         FMul(k.psi, F_2_down) - FMul(k.xi, F_1_up)
                           + FMul(k.pi, FMul(B1, k.chi + k.xi) - FMul(k.psi, B2)
                                          + FMul(Bterm, k.xi + k.psi - k.chi))),
                  coeff |-> k ]
    IN  CHOOSE r \in { out(k) : k \in {TwoStreamCoefficients(omega_0, g_0, delta_tau)} } : TRUE

propagate_fluxes(lam_, F_1_up, F_2_down, T_1, T_2, delta_tau, omega_0, g_0) ==
    LET el(j) == PropagateElem(lam_[j], F_1_up[j], F_2_down[j], T_1, T_2,
                               delta_tau[j], omega_0, g_0)
        els == [j \in DOMAIN lam_ |-> el(j)]
    IN  [ F_2_up |-> [j \in DOMAIN lam_ |-> els[j].F_2_up],
          F_1_down |-> [j \in DOMAIN lam_ |-> els[j].F_1_down],
          coeff |-> [j \in DOMAIN lam_ |-> els[j].coeff] ]

delta_tau_i(kappa_i, p_1, p_2, g_) == FMul(FDiv(p_1 - p_2, g_), kappa_i)

\* jnp.interp: piecewise linear, held constant outside the grid
Interp(x, xp, fp) ==
    LET n == Len0(xp)
    IN  IF x <= xp[0] THEN fp[0]
        ELSE IF x >= xp[n - 1] THEN fp[n - 1]
        ELSE LET k == CHOOSE k \in 0..(n - 2) : xp[k] <= x /\ x < xp[k + 1]
             IN  fp[k] + FMul(FDiv(x - xp[k], xp[k + 1] - xp[k]), fp[k + 1] - fp[k])

----------------------------------------------------------------------------
(* Layer height, lapse rates, convective flux and timestep *)

k_B == 1 * Scale

sigma_sb == 1 * Scale

m_bar_default == 1 * Scale

n_dof_default == 5

alpha_default == 1 * Scale

c_p(m_bar, n_dof) == FMul(FDiv((2 + n_dof) * Scale, 2 * m_bar), k_B)

delta_z_i(temperature_i, pressure_i, pressure_ip1, g_, m_bar) ==
    FMul(FDiv(FMul(k_B, temperature_i), FMul(m_bar, g_)),
         FLog(FDiv(pressure_i, pressure_ip1)))

rho_p(p_1, p_2, T_1, g_, m_bar) ==
    FDiv(FDiv(p_1 - p_2, g_), delta_z_i(T_1, p_1, p_2, g_, m_bar))

gamma(temperature_i, temperature_ip1, pressure_i, pressure_ip1, g_, m_bar) ==
    FDiv(temperature_i - temperature_ip1,
         delta_z_i(temperature_i, pressure_i, pressure_ip1, g_, m_bar))

gamma_adiabatic(g_, m_bar, n_dof) == FDiv(g_, c_p(m_bar, n_dof))

delta_gamma_swapped(temperature_i, temperature_ip1, pressure_i, pressure_ip1, g_, m_bar, n_dof) ==
    gamma_adiabatic(g_, m_bar, n_dof)
        - gamma(temperature_i, temperature_ip1, pressure_i, pressure_ip1, g_, m_bar)

delta_gamma(temperature_i, temperature_ip1, pressure_i, pressure_ip1, g_, m_bar, n_dof) ==
    gamma(temperature_i, temperature_ip1, pressure_i, pressure_ip1, g_, m_bar)
        - gamma_adiabatic(g_, m_bar, n_dof)

mixing_length(T_1, g_, alpha, m_bar) ==
    FDiv(FMul(FMul(alpha, k_B), T_1), FMul(m_bar, g_))

convective_flux(temperature_i, temperature_ip1, pressure_i, pressure_ip1, g_, m_bar, n_dof, alpha) ==
    LET rho == rho_p(pressure_i, pressure_ip1, temperature_i, g_, m_bar)
        cp == c_p(m_bar, n_dof)
        lmix == mixing_length(temperature_i, g_, alpha, m_bar)
        delta_g == delta_gamma(temperature_i, temperature_ip1, pressure_i,
                               pressure_ip1, g_, m_bar, n_dof)
    IN  IF delta_g > 0
        THEN FMul(FMul(FMul(FMul(rho, cp), Sq(lmix)), FSqrt(FDiv(g_, temperature_i))),
                  FPow15(delta_g))
        ELSE 0

\* 1e5 of line 39
PreFactorNumerator == 100000 * Scale

delta_t_i_uncapped(p_1, p_2, T_1, T_2, delta_F_i_dz, g_, m_bar, n_dof) ==
    LET dz == delta_z_i(T_1, p_1, p_2, g_, m_bar)
        f_i_pre == IF FMul(delta_F_i_dz, dz) # 0
                   THEN FDiv(PreFactorNumerator, FPow09(Abs(FMul(delta_F_i_dz, dz))))
                   ELSE Scale
        dt_radiative ==
            FDiv(FDiv(FDiv(FMul(c_p(m_bar, n_dof), p_1), sigma_sb), g_),
                 FMul(FMul(T_1, T_1), T_1))
    IN  FMul(f_i_pre, dt_radiative)

delta_t_i(p_1, p_2, T_1, T_2, delta_F_i_dz, g_, m_bar, n_dof) ==
    LET dz == delta_z_i(T_1, p_1, p_2, g_, m_bar)
        f_i_pre == IF FMul(delta_F_i_dz, dz) # 0
                   THEN FDiv(PreFactorNumerator, FPow09(Abs(FMul(delta_F_i_dz, dz))))
                   ELSE Scale
        dt_radiative ==
            FDiv(FDiv(FDiv(FMul(c_p(m_bar, n_dof), p_1), sigma_sb), g_),
                 FMul(FMul(T_1, T_1), T_1))
        d_gamma == delta_gamma(T_1, T_2, p_1, p_2, g_, m_bar, n_dof)
    IN  IF d_gamma > 0
        THEN LET dt_convective == FSqrt(FDiv(FDiv(T_1, g_), d_gamma))
             IN  FMul(f_i_pre, Min(dt_radiative, dt_convective))
        ELSE FMul(f_i_pre, dt_radiative)

----------------------------------------------------------------------------
(* emit *)

VARIABLES
    pc,                 \* "entry", "loop", "done": position in emit
    offline_opacities,  \* [layer][grid temperature][wavelength]
    temperatures, pressures, lam, F_TOA, g,
    i,                  \* the fori_loop counter
    fluxes_up, fluxes_down,
    ret,                \* the returned tuple, by field
    calls,              \* history: the propagate_fluxes calls of the pass
    set_up, set_down,   \* history: rows an .at[].set has written in the loop
    args,               \* the arguments of a direct call of one of the functions
    result              \* the value that call returned

emitVars == << offline_opacities, temperatures, pressures, lam, F_TOA, g, i,
               fluxes_up, fluxes_down, ret, calls, set_up, set_down >>

callVars == << args, result >>

vars == << pc, emitVars, callVars >>

opacity_grid_temperatures == [t \in 0..1 |-> IF t = 0 THEN 1 * Scale ELSE 3 * Scale]

OpacityTables ==
    { [l \in 0..(MaxLayers - 1) |-> [t \in 0..1 |-> [j \in 0..1 |-> k[t + 1]]]] :
        k \in { <<0, 0>>, <<100, 500>> } }

n_layers == Len0(pressures)

n_wavelengths == Len0(lam)

temps == temperatures

omega_0_emit == 0

g_0_emit == 0

kappa_interp(k) ==
    [j \in DOMAIN lam |->
        Interp(temps[0], opacity_grid_temperatures,
               [t \in DOMAIN opacity_grid_temperatures |-> Get(offline_opacities, k)[t][j]])]

InitEmit ==
    /\ pc = "entry"
    /\ offline_opacities \in OpacityTables
    /\ pressures \in UNION { PressureProfiles(n) : n \in 1..MaxLayers }
    /\ temperatures \in UNION { TemperatureProfiles(m) : m \in 1..MaxLayers }
    /\ lam \in LamGrids
    /\ F_TOA \in TOAFluxes
    /\ g \in GravityVals
    /\ i = 0
    /\ fluxes_up = << >>
    /\ fluxes_down = << >>
    /\ ret = << >>
    /\ calls = {}
    /\ set_up = {}
    /\ set_down = {}
    /\ args = << >>
    /\ result = << >>

\* lines 356-363: allocate the field and seed the top row
EmitEntry ==
    /\ pc = "entry"
    /\ fluxes_up' = [l \in 0..(n_layers - 1) |-> [j \in DOMAIN lam |-> 0]]
    /\ fluxes_down' = AtSet([l \in 0..(n_layers - 1) |-> [j \in DOMAIN lam |-> 0]],
                            n_layers - 1, F_TOA)
    /\ i' = 1
    /\ pc' = "loop"
    /\ UNCHANGED << offline_opacities, temperatures, pressures, lam, F_TOA, g,
                    ret, calls, set_up, set_down, callVars >>

body_fun ==
    LET p_2 == Get(pressures, i + 1)
        T_2 == Get(temps, i + 1)
        p_1 == Get(pressures, i)
        T_1 == Get(temps, i)
        kappa_interp_i == kappa_interp(i)
        delta_tau == [j \in DOMAIN lam |-> delta_tau_i(kappa_interp_i[j], p_1, p_2, g)]
        F_2_down == Get(fluxes_down, i + 1)
        F_1_up == Get(fluxes_up, i)
    IN  \E r \in {propagate_fluxes(lam, F_1_up, F_2_down, T_1, T_2, delta_tau,
                                 omega_0_emit, g_0_emit)} :
        /\ fluxes_up' = AtSet(fluxes_up, i + 1, r.F_2_up)
        /\ fluxes_down' = AtSet(fluxes_down, i, r.F_1_down)
        /\ set_up' = IF InRange(fluxes_up, i + 1) THEN set_up \cup {i + 1} ELSE set_up
        /\ set_down' = IF InRange(fluxes_down, i) THEN set_down \cup {i} ELSE set_down
        /\ calls' = calls \cup
             { [ i |-> i, omega_0 |-> omega_0_emit, g_0 |-> g_0_emit,
                 delta_tau |-> delta_tau,
                 coeff |-> r.coeff ] }

\* one iteration of lax.fori_loop(1, n_layers, body_fun, ...)
LoopStep ==
    /\ pc = "loop"
    /\ i < n_layers
    /\ body_fun
    /\ i' = i + 1
    /\ UNCHANGED << pc, offline_opacities, temperatures, pressures, lam, F_TOA, g, ret,
                    callVars >>

\* lines 426-431
EmitReturn ==
    /\ pc = "loop"
    /\ i >= n_layers
    /\ ret' = [fluxes_up |-> fluxes_up, fluxes_down |-> fluxes_down]
    /\ pc' = "done"
    /\ UNCHANGED << offline_opacities, temperatures, pressures, lam, F_TOA, g, i,
                    fluxes_up, fluxes_down, calls, set_up, set_down, callVars >>

Init == InitEmit

Next == EmitEntry \/ LoopStep \/ EmitReturn

Spec == Init /\ [][Next]_vars

----------------------------------------------------------------------------
(* Direct calls of propagate_fluxes, convective_flux and delta_t_i *)

EmitIdle ==
    /\ offline_opacities = << >>
    /\ temperatures = << >>
    /\ pressures = << >>
    /\ lam = << >>
    /\ F_TOA = << >>
    /\ g = 0
    /\ i = 0
    /\ fluxes_up = << >>
    /\ fluxes_down = << >>
    /\ ret = << >>
    /\ calls = {}
    /\ set_up = {}
    /\ set_down = {}

FluxRows ==
    { [j \in 0..1 |-> 0],
      [j \in 0..1 |-> IF j = 0 THEN 2 * Scale ELSE 1 * Scale],
      [j \in 0..1 |-> 3 * Scale] }

TauRows ==
    { [j \in 0..1 |-> 0],
      [j \in 0..1 |-> 300],
      [j \in 0..1 |-> IF j = 0 THEN 0 ELSE 1 * Scale] }

PropagateInputs ==
    [ lam : LamGrids, F_1_up : FluxRows, F_2_down : FluxRows,
      T_1 : {0, 1 * Scale, 2 * Scale}, T_2 : {0, 1 * Scale, 2 * Scale},
      delta_tau : TauRows, omega_0 : {0, Scale \div 2}, g_0 : {0, Scale \div 2} ]

InitPropagate ==
    /\ pc = "call"
    /\ EmitIdle
    /\ args \in PropagateInputs
    /\ result = << >>

PropagateCall ==
    /\ pc = "call"
    /\ result' = propagate_fluxes(args.lam, args.F_1_up, args.F_2_down, args.T_1,
                                  args.T_2, args.delta_tau, args.omega_0, args.g_0)
    /\ pc' = "returned"
    /\ UNCHANGED << emitVars, args >>

NextPropagate == PropagateCall

SpecPropagate == InitPropagate /\ [][NextPropagate]_vars

\* upper-layer temperatures; 0.802 and 0.604 put a layer of temperature 1 at
\* the adiabatic lapse rate for pressure ratios 2 and 4
UpperTemps == {400, 604, 802, 1 * Scale, 2 * Scale, 3 * Scale}

\* gravities at which the layer thickness, and so the lapse rate of the
\* adiabatic layers above, is exact at the resolution of Scale
ConvectiveGravities == {Scale \div 2, 1 * Scale}

LayerPressures == {1 * Scale, 2 * Scale, 4 * Scale}

ConvectiveInputs ==
    { a \in [ temperature_i : {1 * Scale, 2 * Scale, 3 * Scale},
              temperature_ip1 : UpperTemps,
              pressure_i : LayerPressures, pressure_ip1 : LayerPressures,
              g : ConvectiveGravities ] :
        a.pressure_i # a.pressure_ip1 }

InitConvective ==
    /\ pc = "call"
    /\ EmitIdle
    /\ args \in ConvectiveInputs
    /\ result = << >>

ConvectiveCall ==
    /\ pc = "call"
    /\ result' = convective_flux(args.temperature_i, args.temperature_ip1,
                                 args.pressure_i, args.pressure_ip1, args.g,
                                 m_bar_default, n_dof_default, alpha_default)
    /\ pc' = "returned"
    /\ UNCHANGED << emitVars, args >>

NextConvective == ConvectiveCall

SpecConvective == InitConvective /\ [][NextConvective]_vars

TimestepInputs ==
    { a \in [ p_1 : LayerPressures, p_2 : LayerPressures,
              T_1 : {1 * Scale, 2 * Scale, 3 * Scale}, T_2 : UpperTemps,
              delta_F_i_dz : {0, 2 * Scale, -5 * Scale},
              g : GravityVals ] :
        a.p_1 # a.p_2 }

InitTimestep ==
    /\ pc = "call"
    /\ EmitIdle
    /\ args \in TimestepInputs
    /\ result = << >>

TimestepCall ==
    /\ pc = "call"
    /\ result' = delta_t_i(args.p_1, args.p_2, args.T_1, args.T_2, args.delta_F_i_dz,
                           args.g, m_bar_default, n_dof_default)
    /\ pc' = "returned"
    /\ UNCHANGED << emitVars, args >>

NextTimestep == TimestepCall

SpecTimestep == InitTimestep /\ [][NextTimestep]_vars

----------------------------------------------------------------------------
(* Properties of emit *)

\* the data model's invariants on the inputs of emit
PressuresDecrease == \A k \in 0..(n_layers - 2) : pressures[k] > pressures[k + 1]

ShapesAgree == Len0(temperatures) = n_layers /\ DOMAIN F_TOA = DOMAIN lam

ValidInputs == n_layers >= 2 /\ PressuresDecrease /\ ShapesAgree

ZeroRow == [j \in DOMAIN lam |-> 0]

\* the propagator's result for the adjacent pair (k, k+1) of the returned field
PairResult(k) ==
    propagate_fluxes(lam, ret.fluxes_up[k], ret.fluxes_down[k + 1],
                     temps[k], temps[k + 1],
                     [j \in DOMAIN lam |->
                         delta_tau_i(kappa_interp(k)[j], pressures[k], pressures[k + 1], g)],
                     omega_0_emit, g_0_emit)

\* C1: in the returned field, for every layer k in 0..n_layers-2, flux_down[k]
\* is the propagator's F_1_down computed from the final flux_down[k+1] (the
\* seed F_TOA for the top layer), and flux_up[k+1] is the propagator's F_2_up
\* computed from the final flux_up[k].
C1_RecurrenceUsesFinalFluxes ==
    (pc = "done" /\ ValidInputs) =>
        \A k \in 0..(n_layers - 2) :
            /\ ret.fluxes_down[k] = PairResult(k).F_1_down
            /\ ret.fluxes_up[k + 1] = PairResult(k).F_2_up

\* C2: after the pass, for n_layers >= 2, every row of flux_down except the
\* topmost and every row of flux_up except the bottom has been written by a
\* propagate_fluxes call, and the pair (0, 1) has been processed.
C2_EveryInteriorRowWritten ==
    (pc = "done" /\ n_layers >= 2) =>
        /\ \A k \in 0..(n_layers - 2) : k \in set_down
        /\ \A k \in 1..(n_layers - 1) : k \in set_up
        /\ \E c \in calls : c.i = 0

\* C3: emit never returns a flux field for inputs that violate the data
\* model's invariants (pressures not strictly decreasing, fewer than 2 layers,
\* shapes that do not agree).
C3_InvalidInputsRejected == pc = "done" => ValidInputs

\* C5: every propagate_fluxes call of emit has omega_0 = 0 and g_0 = 0, and at
\* every wavelength E = 1, zeta_plus = 1, zeta_minus = 0 and chi = -1, whatever
\* the optical-depth increment: the divisor chi is never zero.
C5_ChiIsMinusOne ==
    \A c \in calls :
        /\ c.omega_0 = 0
        /\ c.g_0 = 0
        /\ \A j \in DOMAIN c.coeff :
              /\ c.coeff[j].E = Scale
              /\ c.coeff[j].zeta_plus = Scale
              /\ c.coeff[j].zeta_minus = 0
              /\ c.coeff[j].chi = -Scale
              /\ c.coeff[j].chi # 0

\* C5 witness: a pass over valid inputs has called the propagator with a zero
\* and with a positive optical-depth increment.
C5_Witness ==
    /\ pc = "done" /\ ValidInputs
    /\ \E c \in calls : \E j \in DOMAIN c.delta_tau : c.delta_tau[j] = 0
    /\ \E c \in calls : \E j \in DOMAIN c.delta_tau : c.delta_tau[j] > 0

\* C6: emit runs the radiative-equilibrium iteration and its terminal state
\* reports the final temperature profile and the temperature history it
\* appended to.
C6_ReturnsProfileAndHistory ==
    pc = "done" =>
        /\ "final_temps" \in DOMAIN ret
        /\ "temperature_history" \in DOMAIN ret

\* C9: for n_layers >= 2 and a temperature profile of n_layers layers, no loop
\* step leaves the topmost row of flux_down different from F_TOA or the bottom
\* row of flux_up different from zero, and the returned field has them so.
C9_BoundarySeedsSurvive ==
    (pc \in {"loop", "done"} /\ n_layers >= 2 /\ ShapesAgree) =>
        /\ fluxes_down[n_layers - 1] = F_TOA
        /\ fluxes_up[0] = ZeroRow
        /\ pc = "done" => /\ ret.fluxes_down[n_layers - 1] = F_TOA
                          /\ ret.fluxes_up[0] = ZeroRow

\* C9 witness: emit has returned after a loop step wrote the topmost row of
\* flux_down, with a nonzero F_TOA, a non-isothermal profile and opacity.
C9_Witness ==
    /\ pc = "done" /\ ValidInputs
    /\ (n_layers - 1) \in set_down
    /\ F_TOA # ZeroRow
    /\ temps[0] # temps[n_layers - 1]
    /\ \E c \in calls : \E j \in DOMAIN c.delta_tau : c.delta_tau[j] > 0

\* C10: every layer index the loop body uses is in range: for each loop value
\* i, both i and i + 1 lie in 0..n_layers-1.
C10_IndicesInRange ==
    \A c \in calls : /\ 0 <= c.i /\ c.i <= n_layers - 1
                     /\ 0 <= c.i + 1 /\ c.i + 1 <= n_layers - 1

----------------------------------------------------------------------------
(* Properties of propagate_fluxes *)

\* a transparent, non-scattering, isothermal layer pair, at wavelength j
Transparent(j) ==
    /\ args.delta_tau[j] = 0
    /\ args.omega_0 = 0 /\ args.g_0 = 0
    /\ args.T_1 = args.T_2

\* C4, as stated: for a transparent layer the propagator returns
\* F_up_out = F_down_in and F_down_out = F_up_in.
C4_OutputsEqualOppositeInputs ==
    pc = "returned" =>
        \A j \in DOMAIN args.lam :
            Transparent(j) => /\ result.F_2_up[j] = args.F_2_down[j]
                              /\ result.F_1_down[j] = args.F_1_up[j]

\* C4, amended: for a transparent layer (delta_tau = 0, omega_0 = g_0 = 0,
\* T_1 = T_2) each stream passes through unchanged in its own direction:
\* F_up_out = F_up_in and F_down_out = F_down_in, for every pair of incoming
\* fluxes.
C4_TransparentLayerPassesThrough ==
    pc = "returned" =>
        \A j \in DOMAIN args.lam :
            Transparent(j) => /\ result.F_2_up[j] = args.F_1_up[j]
                              /\ result.F_1_down[j] = args.F_2_down[j]

\* C4 witness: the propagator has returned for a transparent layer of positive
\* temperature whose two incoming fluxes differ.
C4_Witness ==
    /\ pc = "returned"
    /\ args.T_1 > 0
    /\ \E j \in DOMAIN args.lam :
          Transparent(j) /\ args.F_1_up[j] # args.F_2_down[j]

----------------------------------------------------------------------------
(* Properties of convective_flux *)

\* the local lapse rate with the upper layer at temperature t, and the
\* adiabatic lapse rate
Gamma(t) ==
    gamma(args.temperature_i, t, args.pressure_i, args.pressure_ip1, args.g,
          m_bar_default)

GammaAd == gamma_adiabatic(args.g, m_bar_default, n_dof_default)

FluxAt(t) ==
    convective_flux(args.temperature_i, t, args.pressure_i, args.pressure_ip1,
                    args.g, m_bar_default, n_dof_default, alpha_default)

\* C7: for positive temperature and gravity and p_i > p_{i+1}, convective_flux
\* returns exactly zero when Gamma <= Gamma_ad (equality included), a strictly
\* positive flux when Gamma > Gamma_ad, and a flux that increases strictly
\* with Gamma - Gamma_ad there.
C7_ConvectiveFluxShape ==
    (pc = "returned" /\ args.temperature_i > 0 /\ args.g > 0
        /\ args.pressure_i > args.pressure_ip1) =>
        /\ Gamma(args.temperature_ip1) <= GammaAd => result = 0
        /\ Gamma(args.temperature_ip1) > GammaAd => result > 0
        /\ \A ta \in UpperTemps :
              (Gamma(args.temperature_ip1) > GammaAd /\ Gamma(ta) < Gamma(args.temperature_ip1))
                  => FluxAt(ta) < result

\* C7 witness: a call at exactly the adiabatic lapse rate has returned, and
\* the same layer is superadiabatic for two colder upper layers.
C7_Witness ==
    /\ pc = "returned"
    /\ args.pressure_i > args.pressure_ip1
    /\ Gamma(args.temperature_ip1) = GammaAd
    /\ \E ta, tb \in UpperTemps : GammaAd < Gamma(ta) /\ Gamma(ta) < Gamma(tb)

----------------------------------------------------------------------------
(* Properties of delta_t_i *)

DtRadiative ==
    FDiv(FDiv(FDiv(FMul(c_p(m_bar_default, n_dof_default), args.p_1), sigma_sb), args.g),
         FMul(FMul(args.T_1, args.T_1), args.T_1))

LapseExcess ==
    gamma(args.T_1, args.T_2, args.p_1, args.p_2, args.g, m_bar_default)
        - gamma_adiabatic(args.g, m_bar_default, n_dof_default)

DtConvective == FSqrt(FDiv(FDiv(args.T_1, args.g), LapseExcess))

\* the flux difference across the layer, delta_F_i_dz * dz
FluxDifference ==
    FMul(args.delta_F_i_dz,
         delta_z_i(args.T_1, args.p_1, args.p_2, args.g, m_bar_default))

\* the timestep with pre-factor f
Timestep(f) ==
    IF LapseExcess > 0 THEN FMul(f, Min(DtRadiative, DtConvective))
                       ELSE FMul(f, DtRadiative)

\* C8, as stated: the pre-factor is (1e5 / |dF/dz|)^0.9 when the flux
\* divergence is nonzero and 1 when it is zero (1e5^0.9 = 31622.777).
C8_PreFactorIsPowerOfRatio ==
    pc = "returned" =>
        result = Timestep(IF args.delta_F_i_dz # 0
                          THEN FDiv(31622777, FPow09(Abs(args.delta_F_i_dz)))
                          ELSE Scale)

\* C8, amended: delta_t_i returns f * min(dt_radiative, dt_convective) exactly
\* when the lapse-rate excess is positive and f * dt_radiative otherwise, with
\* dt_radiative = c_p*p_1/(sigma_SB*g*T_1^3), dt_convective =
\* sqrt(T_1/(g*d_gamma)), and the pre-factor f = 1e5 / |dF|^0.9 of the flux
\* difference dF = delta_F_i_dz * dz when dF is nonzero, f = 1 when it is zero.
C8_TimestepFormula ==
    pc = "returned" =>
        result = Timestep(IF FluxDifference # 0
                          THEN FDiv(PreFactorNumerator, FPow09(Abs(FluxDifference)))
                          ELSE Scale)

\* C8 witness: a call has returned with a nonzero flux divergence in a
\* superadiabatic layer whose convective timescale is the shorter one.
C8_Witness ==
    /\ pc = "returned"
    /\ args.delta_F_i_dz # 0
    /\ LapseExcess > 0
    /\ DtConvective < DtRadiative

============================================================================
